---- MODULE Spec2Model ----
(***************************************************************************)
(* Model of the segmented downloader of cli_downloader_app.py:             *)
(* choose_threads, download_range (the part worker), download_file_rich    *)
(* (the coordinator of one file) and start_download (the batch runner and  *)
(* its ThreadPoolExecutor).                                                *)
(*                                                                         *)
(* A file on disk is [exists, data]; data is a sequence of extents         *)
(* <<src, off, len>>: len bytes that are the bytes off .. off+len-1 of the *)
(* resource of task src (src = 0: bytes that come from no resource of the  *)
(* batch, i.e. what an older file held).  Adjacent extents are coalesced,  *)
(* so two files are equal exactly when they hold the same bytes.           *)
(***************************************************************************)
EXTENDS Integers, Sequences, FiniteSets, TLC

\* ------------------------------------------------------------------ bounds
\* The largest pool size max_workers a batch is started with.
MaxPool == 3
\* How many times the network may misbehave in one run (a failed request, a
\* stream that raises, a stream that ends early, a full-body answer).
MaxFaults == 1
\* A part worker starts with at most this many chunks left to fetch.
MaxChunks == 2

\* ------------------------------------------------------- program constants
MiB == 1048576
ChunkSize == 8192
BackoffCap == 60
BackoffUnit == 1000000
BackoffMaxExp == 6

Min(a, b) == IF a < b THEN a ELSE b
Max(a, b) == IF a > b THEN a ELSE b

\* math.ceil(a / b) for b > 0 (\div rounds towards minus infinity).
Ceil(a, b) == -((-a) \div b)

\* ------------------------------------------------------------ RangePlanner
\* choose_threads with the last tier dividing by 50 MB like the middle one.
choose_threads_sametier(file_size) ==
    IF file_size < 50 * MiB THEN 1
    ELSE IF file_size < 500 * MiB
         THEN Min(4, Max(2, file_size \div (50 * MiB)))
         ELSE Min(16, Max(4, file_size \div (50 * MiB)))

choose_threads(file_size) ==
    IF file_size < 50 * MiB THEN 1
    ELSE IF file_size < 500 * MiB
         THEN Min(4, Max(2, file_size \div (50 * MiB)))
         ELSE Min(16, Max(4, file_size \div (100 * MiB)))

\* part_size with the quotient rounded down instead of up.
part_size_floor(file_size) == file_size \div choose_threads(file_size)

part_size(file_size) == Ceil(file_size, choose_threads(file_size))

\* ranges[i] = (start, end) of part i, as the list comprehension builds it.
RangeOf(file_size, i) ==
    <<i * part_size(file_size),
      Min((i + 1) * part_size(file_size) - 1, file_size - 1)>>

RangeLen(file_size, i) == RangeOf(file_size, i)[2] - RangeOf(file_size, i)[1] + 1

\* ------------------------------------------------------------------- files
NoFile == [exists |-> FALSE, data |-> <<>>]
FileOf(d) == [exists |-> TRUE, data |-> d]

RECURSIVE DataLen(_)
DataLen(d) == IF d = <<>> THEN 0 ELSE d[Len(d)][3] + DataLen(SubSeq(d, 1, Len(d) - 1))

\* os.path.getsize
getsize(f) == DataLen(f.data)

\* d followed by the extent e (nothing for an empty extent).
AppendExtent(d, e) ==
    IF e[3] = 0 THEN d
    ELSE IF d # <<>> /\ d[Len(d)][1] = e[1] /\ d[Len(d)][2] + d[Len(d)][3] = e[2]
         THEN [d EXCEPT ![Len(d)] = <<e[1], d[Len(d)][2], d[Len(d)][3] + e[3]>>]
         ELSE Append(d, e)

RECURSIVE Concat(_, _)
Concat(d, e) == IF e = <<>> THEN d ELSE Concat(AppendExtent(d, Head(e)), Tail(e))

\* The bytes lo .. hi of the resource of task t.
Bytes(t, lo, hi) == IF hi < lo THEN <<>> ELSE <<<<t, lo, hi - lo + 1>>>>

\* ------------------------------------------------------- the batch modelled
\* start_download(files): two (url, filename) pairs with distinct filenames.
Tasks == {1, 2}
LastTask == CHOOSE t \in Tasks : \A u \in Tasks : u <= t

\* Content-Length values the metadata probe may report.
SmallSize == ChunkSize + 1
BigSize == 50 * MiB
Sizes == {0, SmallSize, BigSize}

\* Part indices the modelled sizes use.
PartIdx == 0 .. (choose_threads(BigSize) - 1)

NumParts(file_size) == choose_threads(file_size)
PartsOf(file_size) == 0 .. (NumParts(file_size) - 1)

\* What requests.head answers: the status class, whether a Location header
\* and a Content-Length header are present, the class of the Content-Type
\* ("html": contains text/html, "json": contains application/json).
GoodHead(n) ==
    [status2xx |-> TRUE, hasLocation |-> FALSE, hasLength |-> TRUE,
     ctype |-> "bin", length |-> n]

Heads ==
    {GoodHead(n) : n \in Sizes}
    \cup {[GoodHead(SmallSize) EXCEPT !.hasLength = FALSE],
          [GoodHead(SmallSize) EXCEPT !.ctype = "html"],
          [GoodHead(SmallSize) EXCEPT !.ctype = "json"],
          [GoodHead(SmallSize) EXCEPT !.status2xx = FALSE],
          [GoodHead(SmallSize) EXCEPT !.status2xx = FALSE, !.hasLocation = TRUE]}

ProbePasses(h) ==
    /\ h.status2xx \/ h.hasLocation
    /\ h.hasLength
    /\ h.ctype = "bin"

\* A file left by something else: n bytes of no resource of the batch.
OldFile(n) == FileOf(Bytes(0, 0, n - 1))

\* The destination before the run: absent, an old file of one byte, or an old
\* file of exactly the reported length.
DestInits(h) == {NoFile, OldFile(1), OldFile(h.length)}

\* The length of a part file before the run (-1: absent): the first k bytes
\* of its range left by an earlier run, with at most MaxChunks chunks left to
\* fetch.
PartInits(h, i) ==
    IF ~ProbePasses(h) \/ i \notin PartsOf(h.length) THEN {-1}
    ELSE LET n == RangeLen(h.length, i)
         IN  {k \in {1, n - ChunkSize, n} : k >= 0 /\ k <= n
                                            /\ n - k <= MaxChunks * ChunkSize}
             \cup (IF n <= MaxChunks * ChunkSize THEN {-1} ELSE {})

\* The part file of part i of task t that holds the first k bytes of its range.
PartFile(t, file_size, i, k) ==
    IF k < 0 THEN NoFile
    ELSE FileOf(Bytes(t, RangeOf(file_size, i)[1], RangeOf(file_size, i)[1] + k - 1))

\* A task before the run: what its probe will answer and its files on disk.
TaskInits ==
    UNION {{[head |-> h, dest |-> d, plen |-> p] :
              d \in DestInits(h),
              p \in {q \in [PartIdx -> UNION {PartInits(h, i) : i \in PartIdx}] :
                        \A i \in PartIdx : q[i] \in PartInits(h, i)}} :
           h \in Heads}

\* ------------------------------------------------------------------- state
VARIABLES
    max_workers,     \* start_download's max_workers
    head,            \* head[t]: what the metadata probe of task t answers
    dest,            \* dest[t]: the file <filename> of task t
    part,            \* part[t][i]: the file <filename>.part<i>
    dest0, part0,    \* the files as they were before the run
    queue,           \* the executor's work queue, oldest first
    running,         \* the work items a pool thread is executing
    shutdown,        \* the executor's _shutdown flag
    main,            \* the thread that called start_download
    coord,           \* coord[t]: the download_file_rich call of task t
    progress_state,  \* progress_state[t]: the list cell progress_state[0]
    progress_lock,   \* progress_lock[t]: 0 when free, else i + 1 of the holder
    shown,           \* shown[t]: the "completed" value last given to rich
    worker,          \* worker[t][i]: the download_range call of part i
    faults,          \* how often the network has misbehaved
    ranged,          \* ranged[t]: a range request was issued for task t
    initial,         \* initial[t]: already_downloaded
    advanced,        \* advanced[t]: the sum of the chunk lengths added so far
    snap,            \* snap[t]: dest and part files when the merge started,
                     \* and the part indices the merge has read, in order
    plan             \* the range planner run on its own (SpecPlan)

fsVars == <<dest, part>>
envVars == <<max_workers, head, dest0, part0>>
poolVars == <<queue, running, shutdown>>
progVars == <<progress_state, progress_lock, shown>>
ghostVars == <<ranged, initial, advanced, snap>>
vars == <<max_workers, head, dest, part, dest0, part0, queue, running, shutdown,
          main, coord, progress_state, progress_lock, shown, worker, faults,
          ranged, initial, advanced, snap, plan>>

\* A work item: <<t, -1>> is download_file_rich of task t, <<t, i>> is
\* download_range of part i of task t.
CoordItem(t) == <<t, -1>>
PartItem(t, i) == <<t, i>>

NewCoord == [pc |-> "new", file_size |-> 0, i |-> 0, result |-> "none"]
NewWorker == [pc |-> "new", downloaded |-> 0, lo |-> 0, hi |-> -1, pos |-> 0,
              stop |-> -1, chunk |-> 0, tmp |-> 0, wait |-> 0]
NoPlan == [size |-> 0, ranges |-> <<>>]

Init ==
    /\ max_workers \in 1 .. MaxPool
    /\ \E c \in [Tasks -> TaskInits] :
          /\ head = [t \in Tasks |-> c[t].head]
          /\ dest = [t \in Tasks |-> c[t].dest]
          /\ part = [t \in Tasks |-> [i \in PartIdx |->
                        PartFile(t, c[t].head.length, i, c[t].plen[i])]]
    /\ dest0 = dest
    /\ part0 = part
    /\ queue = <<>>
    /\ running = {}
    /\ shutdown = FALSE
    /\ main = [pc |-> "submit", k |-> 1]
    /\ coord = [t \in Tasks |-> NewCoord]
    /\ progress_state = [t \in Tasks |-> 0]
    /\ progress_lock = [t \in Tasks |-> 0]
    /\ shown = [t \in Tasks |-> -1]
    /\ worker = [t \in Tasks |-> [i \in PartIdx |-> NewWorker]]
    /\ faults = 0
    /\ ranged = [t \in Tasks |-> FALSE]
    /\ initial = [t \in Tasks |-> 0]
    /\ advanced = [t \in Tasks |-> 0]
    /\ snap = [t \in Tasks |-> [taken |-> FALSE, dest |-> NoFile,
                                part |-> [i \in PartIdx |-> NoFile], read |-> <<>>]]
    /\ plan = NoPlan

\* ------------------------------------------------------ ThreadPoolExecutor
\* executor.submit(fn, ...): the work item joins the queue; a pool thread
\* (one of at most max_workers) takes it when it is free.
Submit(item) == queue' = Append(queue, item)

\* A work item's function has returned or raised: its thread is free again.
Release(item) == running' = running \ {item}

\* A pool of any number of threads.
HasFreeThread_unbounded == TRUE

\* The pool has fewer than max_workers threads busy.
HasFreeThread == Cardinality(running) < max_workers

\* A free pool thread takes the oldest queued work item.
Dispatch ==
    /\ queue # <<>>
    /\ HasFreeThread
    /\ LET item == Head(queue)
           t == item[1]
       IN  /\ queue' = Tail(queue)
           /\ running' = running \cup {item}
           /\ IF item[2] = -1
              THEN /\ coord' = [coord EXCEPT ![t].pc = "probe"]
                   /\ UNCHANGED worker
              ELSE /\ worker' = [worker EXCEPT ![t][item[2]].pc = "start"]
                   /\ UNCHANGED coord
    /\ UNCHANGED <<envVars, fsVars, shutdown, main, progVars, faults, ghostVars, plan>>

\* ---------------------------------------------------------- start_download
\* The list comprehension: one download_file_rich per (url, filename).
MainSubmit ==
    /\ main.pc = "submit"
    /\ Submit(CoordItem(main.k))
    /\ coord' = [coord EXCEPT ![main.k].pc = "queued"]
    /\ main' = IF main.k = LastTask THEN [main EXCEPT !.pc = "wait"]
               ELSE [main EXCEPT !.k = main.k + 1]
    /\ UNCHANGED <<envVars, fsVars, running, shutdown, progVars, worker, faults,
                   ghostVars, plan>>

Failed(t) == coord[t].pc = "done" /\ coord[t].result \notin {"completed", "skipped"}

\* for f in as_completed(futures): f.result().  The result of a failed
\* coordinator raises; the exception leaves the "with ThreadPoolExecutor"
\* block, whose exit is shutdown(wait=True).
MainRaise ==
    /\ main.pc = "wait"
    /\ \E t \in Tasks : Failed(t)
    /\ main' = [main EXCEPT !.pc = "raising"]
    /\ shutdown' = TRUE
    /\ UNCHANGED <<envVars, fsVars, queue, running, coord, progVars, worker, faults,
                   ghostVars, plan>>

\* Every coordinator has finished and none has failed: the block is left.
MainAllDone ==
    /\ main.pc = "wait"
    /\ \A t \in Tasks : coord[t].pc = "done" /\ ~Failed(t)
    /\ main' = [main EXCEPT !.pc = "returning"]
    /\ shutdown' = TRUE
    /\ UNCHANGED <<envVars, fsVars, queue, running, coord, progVars, worker, faults,
                   ghostVars, plan>>

\* shutdown(wait=True) joins the pool threads: they end once the queue is
\* empty and every work item has finished.
MainJoin ==
    /\ main.pc \in {"raising", "returning"}
    /\ queue = <<>>
    /\ running = {}
    /\ main' = [main EXCEPT !.pc = IF main.pc = "raising" THEN "raised" ELSE "returned"]
    /\ UNCHANGED <<envVars, fsVars, poolVars, coord, progVars, worker, faults,
                   ghostVars, plan>>

\* ------------------------------------------------------ download_file_rich
\* The call ends (by return or by an exception) with this result.
Finish(t, res) ==
    /\ coord' = [coord EXCEPT ![t].pc = "done", ![t].result = res]
    /\ Release(CoordItem(t))

\* The probe with the content-type check looking for text/html only.
ProbeOutcome_htmlOnly(h) ==
    IF ~h.status2xx /\ ~h.hasLocation THEN "KeyError"
    ELSE IF ~h.hasLength THEN "NoContentLength"
    ELSE IF h.ctype = "html" THEN "ContentType"
    ELSE "ok"

\* What lines 78-90 do with the answer of requests.head.
ProbeOutcome(h) ==
    IF ~h.status2xx /\ ~h.hasLocation THEN "KeyError"
    ELSE IF ~h.hasLength THEN "NoContentLength"
    ELSE IF h.ctype \in {"html", "json"} THEN "ContentType"
    ELSE "ok"

CoordProbe(t) ==
    /\ coord[t].pc = "probe"
    /\ IF ProbeOutcome(head[t]) = "ok"
       THEN /\ coord' = [coord EXCEPT ![t].pc = "plan", ![t].file_size = head[t].length]
            /\ UNCHANGED running
       ELSE Finish(t, ProbeOutcome(head[t]))
    /\ UNCHANGED <<envVars, fsVars, queue, shutdown, main, progVars, worker, faults,
                   ghostVars, plan>>

\* The skip check with > in place of ==.
AlreadyDownloaded_larger(f, file_size) == f.exists /\ getsize(f) > file_size

\* The skip check of line 94.
AlreadyDownloaded(f, file_size) == f.exists /\ getsize(f) = file_size

RECURSIVE SumSizes(_, _)
SumSizes(p, n) ==
    IF n = 0 THEN 0
    ELSE (IF p[n - 1].exists THEN getsize(p[n - 1]) ELSE 0) + SumSizes(p, n - 1)

\* already_downloaded of lines 103-105.
already_downloaded(p, file_size) == SumSizes(p, NumParts(file_size))

\* Lines 94-113: the skip check, the ranges, the preloaded progress.
CoordPlan(t) ==
    /\ coord[t].pc = "plan"
    /\ IF AlreadyDownloaded(dest[t], coord[t].file_size)
       THEN /\ Finish(t, "skipped")
            /\ UNCHANGED <<progVars, initial>>
       ELSE /\ coord' = [coord EXCEPT ![t].pc = "submit", ![t].i = 0]
            /\ progress_state' = [progress_state EXCEPT
                                    ![t] = already_downloaded(part[t], coord[t].file_size)]
            /\ shown' = [shown EXCEPT ![t] = progress_state'[t]]
            /\ initial' = [initial EXCEPT ![t] = progress_state'[t]]
            /\ UNCHANGED <<running, progress_lock>>
    /\ UNCHANGED <<envVars, fsVars, queue, shutdown, main, worker, faults,
                   ranged, advanced, snap, plan>>

\* Lines 115-118, one executor.submit per range; submit raises RuntimeError
\* once the executor is shut down.
CoordSubmit(t) ==
    /\ coord[t].pc = "submit"
    /\ IF shutdown
       THEN /\ Finish(t, "RuntimeError")
            /\ UNCHANGED <<queue, worker>>
       ELSE /\ Submit(PartItem(t, coord[t].i))
            /\ worker' = [worker EXCEPT ![t][coord[t].i].pc = "queued"]
            /\ coord' = IF coord[t].i + 1 = NumParts(coord[t].file_size)
                        THEN [coord EXCEPT ![t].pc = "wait"]
                        ELSE [coord EXCEPT ![t].i = coord[t].i + 1]
            /\ UNCHANGED running
    /\ UNCHANGED <<envVars, fsVars, shutdown, main, progVars, faults, ghostVars, plan>>

\* The wait ending with the first future that has a result.
PartsDone_first(t) == \E i \in PartsOf(coord[t].file_size) : worker[t][i].pc = "done"

PartsDone(t) == \A i \in PartsOf(coord[t].file_size) : worker[t][i].pc = "done"

\* Lines 120-126: every future has a result, the bar is set to file_size and
\* the destination is opened with mode "wb".
CoordWait(t) ==
    /\ coord[t].pc = "wait"
    /\ PartsDone(t)
    /\ shown' = [shown EXCEPT ![t] = coord[t].file_size]
    /\ snap' = [snap EXCEPT ![t] = [taken |-> TRUE, dest |-> dest[t], part |-> part[t],
                                    read |-> <<>>]]
    /\ dest' = [dest EXCEPT ![t] = FileOf(<<>>)]
    /\ coord' = [coord EXCEPT ![t].pc = "merge", ![t].i = 0]
    /\ UNCHANGED <<envVars, part, poolVars, main, progress_state, progress_lock,
                   worker, faults, ranged, initial, advanced, plan>>

\* The destination written afresh for every part: only the last part stays.
MergedInto_overwrite(d, p) == FileOf(p.data)

\* Lines 129-130: the whole part is appended to the open destination.
MergedInto(d, p) == FileOf(Concat(d.data, p.data))

\* Lines 127-133, one part per step: open(part_file, "rb") raises
\* FileNotFoundError for a missing part file; otherwise the part is appended
\* to the destination and removed.
CoordMerge(t) ==
    /\ coord[t].pc = "merge"
    /\ LET i == coord[t].i
       IN  IF ~part[t][i].exists
           THEN /\ Finish(t, "FileNotFoundError")
                /\ UNCHANGED <<fsVars, snap>>
           ELSE /\ dest' = [dest EXCEPT ![t] = MergedInto(dest[t], part[t][i])]
                /\ part' = [part EXCEPT ![t][i] = NoFile]
                /\ snap' = [snap EXCEPT ![t].read = Append(snap[t].read, i)]
                /\ IF i + 1 = NumParts(coord[t].file_size)
                   THEN Finish(t, "completed")
                   ELSE /\ coord' = [coord EXCEPT ![t].i = i + 1]
                        /\ UNCHANGED running
    /\ UNCHANGED <<envVars, queue, shutdown, main, progVars, worker, faults,
                   ranged, initial, advanced, plan>>

\* ---------------------------------------------------------- download_range
RECURSIVE Pow2(_)
Pow2(n) == IF n = 0 THEN 1 ELSE 2 * Pow2(n - 1)

\* wait_time of line 69.
wait_time(downloaded) == Min(BackoffCap, Pow2(Min(downloaded \div BackoffUnit, BackoffMaxExp)))

Start(t, i) == RangeOf(coord[t].file_size, i)[1]
End(t, i) == RangeOf(coord[t].file_size, i)[2]

\* The loop condition of line 50.
Incomplete(downloaded, start, end) == downloaded < (end - start + 1)

\* Where the call goes at the top of the while loop: into the next request,
\* or out of the loop and back to the pool.
Loop(t, i, w) ==
    IF Incomplete(w.downloaded, Start(t, i), End(t, i))
    THEN /\ worker' = [worker EXCEPT ![t][i] = [w EXCEPT !.pc = "get"]]
         /\ UNCHANGED running
    ELSE /\ worker' = [worker EXCEPT ![t][i] = [w EXCEPT !.pc = "done"]]
         /\ Release(PartItem(t, i))

\* Lines 47-50: the resume offset is the part file's length.
\* The part number left out of the name: one file for all parts of a task.
part_file_nonum(t, i) == <<t, 0>>

\* Line 47: the path "<filename>.part<part_num>", as the index of the file in
\* part (the tasks have pairwise distinct filenames).
part_file(t, i) == <<t, i>>

\* The file a part worker reads and appends to.
OwnPart(t, i) == part[part_file(t, i)[1]][part_file(t, i)[2]]

WorkerStart(t, i) ==
    /\ worker[t][i].pc = "start"
    /\ Loop(t, i, [worker[t][i] EXCEPT !.downloaded =
                      IF OwnPart(t, i).exists THEN getsize(OwnPart(t, i)) ELSE 0])
    /\ UNCHANGED <<envVars, fsVars, queue, shutdown, main, coord, progVars, faults,
                   ghostVars, plan>>

\* The Range header always starting at the start of the range.
RangeFrom_restart(t, i, downloaded) == Start(t, i)

\* The first byte the Range header of line 52 asks for.
RangeFrom(t, i, downloaded) == Start(t, i) + downloaded

\* open(part_file, "ab") creates a missing file.
OpenAppend(f) == IF f.exists THEN f ELSE FileOf(<<>>)

\* Lines 51-58: the request is answered with the bytes it asked for.
WorkerGet(t, i) ==
    /\ worker[t][i].pc = "get"
    /\ worker' = [worker EXCEPT ![t][i].pc = "stream",
                                ![t][i].lo = RangeFrom(t, i, worker[t][i].downloaded),
                                ![t][i].hi = End(t, i),
                                ![t][i].pos = RangeFrom(t, i, worker[t][i].downloaded),
                                ![t][i].stop = End(t, i)]
    /\ part' = [part EXCEPT ![part_file(t, i)[1]][part_file(t, i)[2]] =
                                 OpenAppend(OwnPart(t, i))]
    /\ ranged' = [ranged EXCEPT ![t] = TRUE]
    /\ UNCHANGED <<envVars, dest, poolVars, main, coord, progVars, faults,
                   initial, advanced, snap, plan>>

\* Lines 51-58 with a server that ignores the Range header and answers with
\* the whole resource (modelled for resources of at most MaxChunks chunks).
WorkerGetFull(t, i) ==
    /\ worker[t][i].pc = "get"
    /\ faults < MaxFaults
    /\ coord[t].file_size <= MaxChunks * ChunkSize
    /\ faults' = faults + 1
    /\ worker' = [worker EXCEPT ![t][i].pc = "stream",
                                ![t][i].lo = RangeFrom(t, i, worker[t][i].downloaded),
                                ![t][i].hi = End(t, i),
                                ![t][i].pos = 0,
                                ![t][i].stop = coord[t].file_size - 1]
    /\ part' = [part EXCEPT ![part_file(t, i)[1]][part_file(t, i)[2]] =
                                 OpenAppend(OwnPart(t, i))]
    /\ ranged' = [ranged EXCEPT ![t] = TRUE]
    /\ UNCHANGED <<envVars, dest, poolVars, main, coord, progVars,
                   initial, advanced, snap, plan>>

\* The except branch giving up: the call ends instead of going round.
Retry_giveup(t, i, w) ==
    /\ worker' = [worker EXCEPT ![t][i] = [w EXCEPT !.pc = "done",
                                                   !.wait = wait_time(w.downloaded)]]
    /\ Release(PartItem(t, i))

\* Lines 68-71: the except branch sleeps wait_time and the loop goes round.
Retry(t, i, w) == Loop(t, i, [w EXCEPT !.wait = wait_time(w.downloaded)])

\* Lines 56-57 raise: a connection error, a timeout, a non-success status.
WorkerGetFail(t, i) ==
    /\ worker[t][i].pc = "get"
    /\ faults < MaxFaults
    /\ faults' = faults + 1
    /\ Retry(t, i, [worker[t][i] EXCEPT
                        !.lo = RangeFrom(t, i, worker[t][i].downloaded),
                        !.hi = End(t, i)])
    /\ ranged' = [ranged EXCEPT ![t] = TRUE]
    /\ UNCHANGED <<envVars, fsVars, queue, shutdown, main, coord, progVars,
                   initial, advanced, snap, plan>>

\* Lines 59-63: the next chunk of the stream is appended to the part file.
WorkerChunk(t, i) ==
    /\ worker[t][i].pc = "stream"
    /\ worker[t][i].pos <= worker[t][i].stop
    /\ LET w == worker[t][i]
           n == Min(ChunkSize, w.stop - w.pos + 1)
       IN  /\ part' = [part EXCEPT ![part_file(t, i)[1]][part_file(t, i)[2]] =
                          FileOf(AppendExtent(OwnPart(t, i).data, <<t, w.pos, n>>))]
           /\ worker' = [worker EXCEPT ![t][i].pc = "lock",
                                       ![t][i].pos = w.pos + n,
                                       ![t][i].chunk = n,
                                       ![t][i].downloaded = w.downloaded + n]
    /\ UNCHANGED <<envVars, dest, poolVars, main, coord, progVars, faults,
                   ghostVars, plan>>

\* The increment of line 65 outside any lock.
LockFree_unlocked(t) == TRUE

\* Whether "with progress_lock" may be entered.
LockFree(t) == progress_lock[t] = 0

\* Lines 64-65: the lock is taken and progress_state[0] is read.
WorkerLock(t, i) ==
    /\ worker[t][i].pc = "lock"
    /\ LockFree(t)
    /\ progress_lock' = [progress_lock EXCEPT ![t] = i + 1]
    /\ worker' = [worker EXCEPT ![t][i].pc = "add", ![t][i].tmp = progress_state[t]]
    /\ UNCHANGED <<envVars, fsVars, poolVars, main, coord, progress_state, shown,
                   faults, ghostVars, plan>>

\* Lines 65-66: the sum is stored and shown, and the lock is released.
WorkerAdd(t, i) ==
    /\ worker[t][i].pc = "add"
    /\ progress_state' = [progress_state EXCEPT
                            ![t] = worker[t][i].tmp + worker[t][i].chunk]
    /\ shown' = [shown EXCEPT ![t] = progress_state'[t]]
    /\ progress_lock' = [progress_lock EXCEPT ![t] = 0]
    /\ advanced' = [advanced EXCEPT ![t] = advanced[t] + worker[t][i].chunk]
    /\ worker' = [worker EXCEPT ![t][i].pc = "stream"]
    /\ UNCHANGED <<envVars, fsVars, poolVars, main, coord, faults,
                   ranged, initial, snap, plan>>

\* Line 67: the stream is exhausted and break leaves the loop.
Break(t, i) ==
    /\ worker' = [worker EXCEPT ![t][i].pc = "done"]
    /\ Release(PartItem(t, i))

WorkerStreamEnd(t, i) ==
    /\ worker[t][i].pc = "stream"
    /\ worker[t][i].pos > worker[t][i].stop
    /\ Break(t, i)
    /\ UNCHANGED <<envVars, fsVars, queue, shutdown, main, coord, progVars, faults,
                   ghostVars, plan>>

\* The stream ends without an error before the last requested byte (the
\* server closes the body early): iter_content just stops.
WorkerStreamShort(t, i) ==
    /\ worker[t][i].pc = "stream"
    /\ worker[t][i].pos <= worker[t][i].stop
    /\ faults < MaxFaults
    /\ faults' = faults + 1
    /\ Break(t, i)
    /\ UNCHANGED <<envVars, fsVars, queue, shutdown, main, coord, progVars,
                   ghostVars, plan>>

\* iter_content raises in the middle of the stream.
WorkerStreamFail(t, i) ==
    /\ worker[t][i].pc = "stream"
    /\ worker[t][i].pos <= worker[t][i].stop
    /\ faults < MaxFaults
    /\ faults' = faults + 1
    /\ Retry(t, i, worker[t][i])
    /\ UNCHANGED <<envVars, fsVars, queue, shutdown, main, coord, progVars,
                   ghostVars, plan>>

\* ----------------------------------------------------------- specification
Next ==
    \/ Dispatch
    \/ MainSubmit
    \/ MainRaise
    \/ MainAllDone
    \/ MainJoin
    \/ \E t \in Tasks : CoordProbe(t)
    \/ \E t \in Tasks : CoordPlan(t)
    \/ \E t \in Tasks : CoordSubmit(t)
    \/ \E t \in Tasks : CoordWait(t)
    \/ \E t \in Tasks : CoordMerge(t)
    \/ \E t \in Tasks, i \in PartIdx : WorkerStart(t, i)
    \/ \E t \in Tasks, i \in PartIdx : WorkerGet(t, i)
    \/ \E t \in Tasks, i \in PartIdx : WorkerGetFull(t, i)
    \/ \E t \in Tasks, i \in PartIdx : WorkerGetFail(t, i)
    \/ \E t \in Tasks, i \in PartIdx : WorkerChunk(t, i)
    \/ \E t \in Tasks, i \in PartIdx : WorkerLock(t, i)
    \/ \E t \in Tasks, i \in PartIdx : WorkerAdd(t, i)
    \/ \E t \in Tasks, i \in PartIdx : WorkerStreamEnd(t, i)
    \/ \E t \in Tasks, i \in PartIdx : WorkerStreamShort(t, i)
    \/ \E t \in Tasks, i \in PartIdx : WorkerStreamFail(t, i)

Spec == Init /\ [][Next]_vars

\* ------------------------------------------------- the range planner alone
\* The sizes the planner is run on: every size up to PlanSmall, and the sizes
\* within PlanSlack bytes of each multiple of 50 MiB up to PlanTiers * 50 MiB
\* (the tier boundaries of choose_threads are among them).
PlanSmall == 20
PlanSlack == 17
PlanTiers == 32
PlanSizes ==
    (1 .. PlanSmall)
    \cup {m * 50 * MiB + d : m \in 1 .. PlanTiers, d \in (-PlanSlack) .. PlanSlack}

\* The batch never starts: only the planner runs.
InitPlan ==
    /\ plan \in {[size |-> n, ranges |-> <<>>] : n \in PlanSizes}
    /\ max_workers = 1
    /\ head = [t \in Tasks |-> GoodHead(0)]
    /\ dest = [t \in Tasks |-> NoFile]
    /\ part = [t \in Tasks |-> [i \in PartIdx |-> NoFile]]
    /\ dest0 = dest
    /\ part0 = part
    /\ queue = <<>>
    /\ running = {}
    /\ shutdown = FALSE
    /\ main = [pc |-> "submit", k |-> 1]
    /\ coord = [t \in Tasks |-> NewCoord]
    /\ progress_state = [t \in Tasks |-> 0]
    /\ progress_lock = [t \in Tasks |-> 0]
    /\ shown = [t \in Tasks |-> -1]
    /\ worker = [t \in Tasks |-> [i \in PartIdx |-> NewWorker]]
    /\ faults = 0
    /\ ranged = [t \in Tasks |-> FALSE]
    /\ initial = [t \in Tasks |-> 0]
    /\ advanced = [t \in Tasks |-> 0]
    /\ snap = [t \in Tasks |-> [taken |-> FALSE, dest |-> NoFile,
                                part |-> [i \in PartIdx |-> NoFile], read |-> <<>>]]

\* One iteration of the list comprehension of line 100.
PlanRange ==
    /\ Len(plan.ranges) < choose_threads(plan.size)
    /\ plan' = [plan EXCEPT !.ranges = Append(plan.ranges,
                                              RangeOf(plan.size, Len(plan.ranges)))]
    /\ UNCHANGED <<envVars, fsVars, poolVars, main, coord, progVars, worker, faults,
                   ghostVars>>

NextPlan == PlanRange

SpecPlan == InitPlan /\ [][NextPlan]_vars

\* ------------------------------------------------------------------ claims
Done(t) == coord[t].pc = "done"
PartLen(t, i) == IF part[t][i].exists THEN getsize(part[t][i]) ELSE 0

\* The task has left no trace: no range request, no part worker submitted,
\* its part files and its destination as they were before the run.
Untouched(t) ==
    /\ ~ranged[t]
    /\ \A i \in PartIdx : worker[t][i].pc = "new"
    /\ part[t] = part0[t]
    /\ dest[t] = dest0[t]

\* Every pool thread runs a coordinator that waits for part workers still
\* sitting in the pool's queue.
PoolStarved ==
    /\ Cardinality(running) = max_workers
    /\ \A item \in running :
          /\ item[2] = -1
          /\ coord[item[1]].pc = "wait"
          /\ \E i \in PartsOf(coord[item[1]].file_size) :
                worker[item[1]][i].pc = "queued"
\* C1: the pool never gets into the state where every pool thread runs a
\* coordinator that waits for part workers still sitting in the pool's queue
\* (from which no coordinator can reach a terminal result).
C1_NoPoolStarvation == ~PoolStarved

ProbeFailed(t) == Done(t) /\ coord[t].result \in {"KeyError", "NoContentLength", "ContentType"}
\* C2: a task is never failed by the failure of a sibling's probe: once a
\* sibling has failed at its probe, the task still submits its part workers
\* (executor.submit does not raise for it).
C2_SiblingsUnaffected ==
    \A t \in Tasks :
        (\E u \in Tasks \ {t} : ProbeFailed(u)) => coord[t].result # "RuntimeError"

RECURSIVE ConcatParts(_, _)
ConcatParts(p, n) ==
    IF n = 0 THEN <<>> ELSE Concat(ConcatParts(p, n - 1), p[n - 1].data)

\* Some part file was missing or short when the merge started.
MissingOrShort(t) ==
    \E i \in PartsOf(coord[t].file_size) :
        \/ ~snap[t].part[i].exists
        \/ getsize(snap[t].part[i]) < RangeLen(coord[t].file_size, i)
\* C3: once the merge of a task has ended, either no part was missing or
\* short when it started and the destination holds the parts in order, or
\* the destination and every part file are as they were when it started.
C3_MergeAllOrNothing ==
    \A t \in Tasks :
        (Done(t) /\ snap[t].taken) =>
            IF MissingOrShort(t)
            THEN /\ dest[t] = snap[t].dest
                 /\ part[t] = snap[t].part
            ELSE dest[t] = FileOf(ConcatParts(snap[t].part, NumParts(coord[t].file_size)))

\* C4: when download_range has returned (and the merge has not yet removed
\* the part files), the part file holds end - start + 1 bytes.
C4_ReturnedMeansComplete ==
    \A t \in Tasks, i \in PartIdx :
        (worker[t][i].pc = "done" /\ ~snap[t].taken) =>
            PartLen(t, i) = RangeLen(coord[t].file_size, i)

\* C5: a Completed task has a destination of exactly the probed size and no
\* part file left; a task that failed before the merge still has every part
\* file that was there before the run or that a worker has opened.
C5_CompletedMeansWholeFile ==
    \A t \in Tasks :
        /\ (Done(t) /\ coord[t].result = "completed") =>
              /\ dest[t].exists
              /\ getsize(dest[t]) = coord[t].file_size
              /\ \A i \in PartsOf(coord[t].file_size) : ~part[t][i].exists
        /\ (Failed(t) /\ ~snap[t].taken) =>
              \A i \in PartIdx :
                  (part0[t][i].exists \/ worker[t][i].pc \in {"stream", "lock", "add"})
                      => part[t][i].exists

\* C6: for a size > 0, the planned ranges partition [0, size): the first
\* starts at 0, each has start <= end, each next one starts right after the
\* previous end, and the last ends at size - 1.
C6_RangesPartition ==
    (plan.size > 0 /\ Len(plan.ranges) = choose_threads(plan.size)) =>
        LET r == plan.ranges
            n == Len(r)
        IN  /\ r[1][1] = 0
            /\ \A k \in 1 .. n : r[k][1] <= r[k][2]
            /\ \A k \in 1 .. (n - 1) : r[k + 1][1] = r[k][2] + 1
            /\ r[n][2] = plan.size - 1
\* A size that does not divide evenly into more than one part is planned.
C6_Witness ==
    /\ Len(plan.ranges) = choose_threads(plan.size)
    /\ Len(plan.ranges) > 1
    /\ plan.size % Len(plan.ranges) # 0

\* The probe succeeds and the destination exists with the probed size.
SkipCase(t) ==
    /\ ProbePasses(head[t])
    /\ dest0[t].exists
    /\ getsize(dest0[t]) = head[t].length
\* C7: a task whose probe succeeds and whose destination exists with exactly
\* the probed size ends as skipped and leaves no trace: no range request, no
\* part worker, no part file created, the destination unchanged.
C7_SkipLeavesNoTrace ==
    \A t \in Tasks :
        SkipCase(t) =>
            /\ coord[t].pc \in {"new", "queued", "probe", "plan", "done"}
            /\ Done(t) => coord[t].result = "skipped"
            /\ Untouched(t)
\* A task with part files on disk has been skipped.
C7_Witness ==
    \E t \in Tasks :
        /\ SkipCase(t)
        /\ Done(t)
        /\ head[t].length > 0

BadProbe(t) == ~head[t].hasLength \/ head[t].ctype \in {"html", "json"}
\* C8: a probe without Content-Length, or with a text/html or
\* application/json content type, ends the task in failure before any range
\* is planned, and the task leaves no trace.
C8_BadProbeFailsClean ==
    \A t \in Tasks :
        BadProbe(t) =>
            /\ coord[t].pc \in {"new", "queued", "probe", "done"}
            /\ Done(t) => Failed(t)
            /\ Untouched(t)
\* Both kinds of bad probe have ended a task while an old destination exists.
C8_Witness ==
    /\ \E t \in Tasks : Done(t) /\ ~head[t].hasLength /\ dest0[t].exists
    /\ \E t \in Tasks : Done(t) /\ head[t].ctype = "json"

\* C9: a task whose probe reports a size <= 0 fails before planning: it
\* never submits, waits or merges, and never opens the destination.
C9_NonPositiveSizeFailsFast ==
    \A t \in Tasks :
        (ProbePasses(head[t]) /\ head[t].length <= 0) =>
            /\ coord[t].pc \in {"new", "queued", "probe", "plan", "done"}
            /\ Done(t) => Failed(t)
            /\ ~snap[t].taken
            /\ dest[t] = dest0[t]

\* C10: the progress counter of a task is its initial value plus the sum of
\* the chunk lengths its part workers have added, in every interleaving.
C10_NoLostAdvance ==
    \A t \in Tasks : progress_state[t] = initial[t] + advanced[t]
\* Both part workers of one task have added a chunk to a non-zero initial
\* counter.
C10_Witness ==
    \E t \in Tasks :
        /\ initial[t] > 0
        /\ advanced[t] = 2 * ChunkSize
        /\ \A i \in PartsOf(coord[t].file_size) :
              worker[t][i].pc = "done" /\ worker[t][i].chunk = ChunkSize
        /\ NumParts(coord[t].file_size) = 2

\* A transport failure in download_range of part i of task t.
TransportFailure(t, i) == WorkerGetFail(t, i) \/ WorkerStreamFail(t, i)
\* A range request of part i of task t leaves (answered or not).
RangeRequest(t, i) == WorkerGet(t, i) \/ WorkerGetFull(t, i) \/ WorkerGetFail(t, i)

\* C11: a transport failure in a part worker keeps the part file as it is,
\* sets a wait, and leaves the call in its loop: while the part is incomplete
\* the call goes to the next request (it ends only with the loop condition
\* false), and the request after a failure asks for start + the bytes in the
\* part file up to the same end.
C11_FailureIsAbsorbed ==
    [][\A t \in Tasks, i \in PartIdx :
          /\ TransportFailure(t, i) =>
                /\ part'[t][i] = part[t][i]
                /\ worker'[t][i].downloaded = PartLen(t, i)
                /\ worker'[t][i].wait > 0
                /\ worker'[t][i].pc = IF Incomplete(PartLen(t, i), Start(t, i), End(t, i))
                                      THEN "get" ELSE "done"
          /\ (RangeRequest(t, i) /\ worker[t][i].wait > 0) =>
                /\ worker'[t][i].lo = Start(t, i) + PartLen(t, i)
                /\ worker'[t][i].hi = End(t, i)]_vars
\* After a failure in the middle of a stream the request was issued again from
\* behind the bytes already appended.
C11_Witness ==
    \E t \in Tasks, i \in PartIdx :
        /\ worker[t][i].wait > 0
        /\ worker[t][i].pc = "stream"
        /\ ~part0[t][i].exists
        /\ worker[t][i].lo = Start(t, i) + ChunkSize
        /\ PartLen(t, i) = ChunkSize

\* The download_range calls that have started and not yet ended.
RunningParts ==
    {w \in Tasks \X PartIdx :
        worker[w[1]][w[2]].pc \in {"start", "get", "stream", "lock", "add"}}
\* C12: the number of download_range calls running at the same time, over all
\* files of the batch, never exceeds max_workers.
C12_PartsWithinPool == Cardinality(RunningParts) <= max_workers
\* Two part workers run at once and, with their coordinator, fill the pool.
C12_Witness ==
    /\ Cardinality(RunningParts) = 2
    /\ Cardinality(running) = max_workers

\* The part file of part i of task t holds no byte of the resource at an
\* offset from lo on.
NothingStoredFrom(t, i, lo) ==
    \A k \in 1 .. Len(part[t][i].data) :
        part[t][i].data[k][1] = t => part[t][i].data[k][2] + part[t][i].data[k][3] <= lo
\* C13: every range request of a part worker asks for [start + k, end], k the
\* number of bytes in its part file at that moment (0 for a missing file), and
\* so for no byte offset the part file already holds.
C13_RequestsOnlyMissingBytes ==
    [][\A t \in Tasks, i \in PartIdx :
          RangeRequest(t, i) =>
              /\ worker'[t][i].lo = Start(t, i) + PartLen(t, i)
              /\ worker'[t][i].hi = End(t, i)
              /\ NothingStoredFrom(t, i, worker'[t][i].lo)]_vars
\* The second part of a file is resumed from the bytes an earlier run left.
C13_Witness ==
    \E t \in Tasks, i \in PartIdx :
        /\ i > 0
        /\ part0[t][i].exists
        /\ getsize(part0[t][i]) > 0
        /\ worker[t][i].pc = "stream"
        /\ worker[t][i].wait = 0
        /\ worker[t][i].lo = Start(t, i) + getsize(part0[t][i])
        /\ worker[t][i].hi = End(t, i)

\* C14: once the merge of a file has started, every part worker of the file
\* has returned; the merge reads part 0, 1, ... in this order, each once, and
\* a completed merge has read all of them.
C14_MergeAfterAllParts ==
    \A t \in Tasks :
        snap[t].taken =>
            /\ \A i \in PartsOf(coord[t].file_size) : worker[t][i].pc = "done"
            /\ \A k \in 1 .. Len(snap[t].read) : snap[t].read[k] = k - 1
            /\ coord[t].result = "completed" =>
                  Len(snap[t].read) = NumParts(coord[t].file_size)
\* A file of two parts has been merged.
C14_Witness ==
    \E t \in Tasks :
        /\ coord[t].result = "completed"
        /\ snap[t].read = <<0, 1>>

\* Every part file of the task was there when its merge started.
AllPartsPresent(t) == \A i \in PartsOf(coord[t].file_size) : snap[t].part[i].exists
\* C15: a merge that found all its part files ends as completed with a
\* destination that holds exactly part 0, part 1, ... one after the other, and
\* with none of the part files left.
C15_MergeConcatenates ==
    \A t \in Tasks :
        (Done(t) /\ snap[t].taken /\ AllPartsPresent(t)) =>
            /\ coord[t].result = "completed"
            /\ dest[t] = FileOf(ConcatParts(snap[t].part, NumParts(coord[t].file_size)))
            /\ \A i \in PartsOf(coord[t].file_size) : ~part[t][i].exists
\* Two complete parts have been merged into the whole resource, over an old
\* destination.
C15_Witness ==
    \E t \in Tasks :
        /\ Done(t)
        /\ NumParts(coord[t].file_size) = 2
        /\ dest0[t].exists
        /\ dest[t] = FileOf(Bytes(t, 0, coord[t].file_size - 1))

Clamp(x, lo, hi) == IF x < lo THEN lo ELSE IF x > hi THEN hi ELSE x
\* The documented tiers of the part count.
TierParts(size) ==
    IF size < 50 * MiB THEN 1
    ELSE IF size < 500 * MiB THEN Clamp(size \div (50 * MiB), 2, 4)
    ELSE Clamp(size \div (100 * MiB), 4, 16)
\* C16: the number of ranges planned for a size is the documented tier value,
\* and no smaller size gets more parts.
C16_PartCountTiers ==
    Len(plan.ranges) = choose_threads(plan.size) =>
        /\ Len(plan.ranges) = TierParts(plan.size)
        /\ \A n \in PlanSizes :
              n <= plan.size => choose_threads(n) <= Len(plan.ranges)
\* A size of the last tier, between its clamps, has been planned.
C16_Witness ==
    /\ Len(plan.ranges) = choose_threads(plan.size)
    /\ Len(plan.ranges) = 7
    /\ plan.size >= 500 * MiB

\* C17: the wait before a retry is min(64, 2^min(downloaded / 1000000, 6))
\* seconds, downloaded being the bytes already in the part (so it is 64 from
\* 6000000 bytes on): a part worker about to retry has waited exactly that.
C17_BackoffFormula ==
    \A t \in Tasks, i \in PartIdx :
        (worker[t][i].pc = "get" /\ worker[t][i].wait > 0) =>
            worker[t][i].wait =
                Min(64, Pow2(Min(worker[t][i].downloaded \div 1000000, 6)))

\* A total is published for task t: by a part worker after a chunk (line 66)
\* or by the coordinator once every part has a result (line 123).
Publishes(t) == CoordWait(t) \/ \E i \in PartIdx : WorkerAdd(t, i)

\* C18 as stated: every total published for a task, the coordinator's final
\* one included, is strictly greater than the total published before it.
C18_StrictlyIncreasing ==
    [][\A t \in Tasks : Publishes(t) => shown'[t] > shown[t]]_vars

\* C18: every total a part worker publishes is strictly greater than the
\* total published before it, the chunk is added exactly once to the counter
\* of its own task and to no other task's, and the coordinator's final
\* publication is exactly file_size (it need not exceed the last total).
C18_ChunkTotalsIncrease ==
    [][\A t \in Tasks :
          /\ \A i \in PartIdx :
                WorkerAdd(t, i) =>
                    /\ worker[t][i].chunk > 0
                    /\ shown'[t] > shown[t]
                    /\ progress_state'[t] = progress_state[t] + worker[t][i].chunk
                    /\ shown'[t] = progress_state'[t]
                    /\ \A u \in Tasks \ {t} :
                          /\ progress_state'[u] = progress_state[u]
                          /\ shown'[u] = shown[u]
          /\ CoordWait(t) => shown'[t] = coord[t].file_size]_vars

\* A task whose parts each added a chunk and whose coordinator then
\* published file_size, the total the last chunk had already published.
C18_Witness ==
    \E t \in Tasks :
        /\ snap[t].taken
        /\ NumParts(coord[t].file_size) = 2
        /\ advanced[t] = 2 * ChunkSize
        /\ progress_state[t] = coord[t].file_size
        /\ shown[t] = coord[t].file_size

\* C19: in every state the length of a part file is at most the length
\* end - start + 1 of its range, whatever the server sent and whatever was
\* in the file at start-up.
C19_PartWithinRange ==
    \A t \in Tasks, i \in PartIdx :
        worker[t][i].pc # "new" =>
            PartLen(t, i) <= RangeLen(coord[t].file_size, i)

\* The counter of task t is live and its part files are still in place:
\* from the preload of lines 103-110 until the merge starts.
Counting(t) == coord[t].pc \in {"submit", "wait"}

\* No part worker of task t is between the append of line 61 and the add of
\* line 65.
NoAddPending(t) == \A i \in PartIdx : worker[t][i].pc \notin {"lock", "add"}

\* C20: whenever no part worker is between appending a chunk and adding it,
\* the counter of a task equals the sum of the lengths of its part files,
\* and it never exceeds the size the probe reported.
C20_CounterIsSumOfParts ==
    \A t \in Tasks :
        Counting(t) =>
            /\ NoAddPending(t) =>
                  progress_state[t] = SumSizes(part[t], NumParts(coord[t].file_size))
            /\ progress_state[t] <= coord[t].file_size

\* A step of the part worker for part i of task t (lines 45-71).
WorkerStep(t, i) ==
    \/ WorkerStart(t, i) \/ WorkerGet(t, i) \/ WorkerGetFull(t, i)
    \/ WorkerGetFail(t, i) \/ WorkerChunk(t, i) \/ WorkerLock(t, i)
    \/ WorkerAdd(t, i) \/ WorkerStreamEnd(t, i) \/ WorkerStreamShort(t, i)
    \/ WorkerStreamFail(t, i)

\* The part worker has its part file open for appending (line 58 to the end
\* of the stream).
Appending(t, i) == worker[t][i].pc \in {"stream", "lock", "add"}

\* The part workers that have the file f open for appending.
AppendersOf(f) ==
    {w \in Tasks \X PartIdx : Appending(w[1], w[2]) /\ part_file(w[1], w[2]) = f}

\* C21: a step of the part worker for part i of task t leaves the
\* destination files, every part file but .part<i> of t and every other
\* task's counter and published total unchanged, and after every step no
\* part file has two workers appending to it.
C21_WorkerFrame ==
    [][/\ \A t \in Tasks, i \in PartIdx :
             WorkerStep(t, i) =>
                 /\ dest' = dest
                 /\ \A u \in Tasks, j \in PartIdx :
                       <<u, j>> # <<t, i>> => part'[u][j] = part[u][j]
                 /\ \A u \in Tasks \ {t} :
                       /\ progress_state'[u] = progress_state[u]
                       /\ shown'[u] = shown[u]
       /\ \A f \in Tasks \X PartIdx : Cardinality(AppendersOf(f)') <= 1]_vars

\* Both part workers of a task have their part files open at once, and each
\* has appended a chunk to its own file.
C21_Witness ==
    \E t \in Tasks :
        /\ Appending(t, 0) /\ Appending(t, 1)
        /\ PartLen(t, 0) > DataLen(part0[t][0].data)
        /\ PartLen(t, 1) > DataLen(part0[t][1].data)
        /\ dest[t] = dest0[t]
====
